---- MODULE Spec2Model ----
(***************************************************************************)
(* WyrmWatch server (src/wyrmwatch/wyrmwatch_server.py).                   *)
(*                                                                         *)
(* The server is one asyncio event loop.  A coroutine runs without         *)
(* interruption from one suspension point to the next, so every action     *)
(* below is one such segment of a coroutine, or one callback.  Message     *)
(* callbacks (handle_message) are taken to run on the loop, the only       *)
(* setting in which their asyncio.create_task calls succeed.               *)
(*                                                                         *)
(* The units of work (process_task coroutines) are kept as a bag: for each *)
(* position in the coroutine and each target agent, the number of tasks    *)
(* that are there.  The order in which asyncio wakes the waiters of a      *)
(* semaphore is left open.                                                 *)
(*                                                                         *)
(* sent and last are observations of the latest step only: the message the *)
(* transport accepted in it, and what a unit of work did in it (the        *)
(* permits it logged as acquired, the document it handed to insert_one,    *)
(* the result of the insert and the counter it incremented).               *)
(*                                                                         *)
(* What handle_message and process_task make of one payload is a function  *)
(* of the topic and the bytes.  It is followed in call, under HandlerSpec, *)
(* for every payload of up to MaxPayloadLen lexical units; the server      *)
(* model above it only keeps the classes of events that function yields.   *)
(***************************************************************************)
EXTENDS Integers, FiniteSets, Sequences, TLC

\* ---------------------------------------------------------------- bounds
MaxEvents == 6          \* task events delivered in one run
MaxTriggers == 2        \* shutdown triggers (signals and shutdown commands)
MaxPayloadLen == 4      \* lexical units of one payload

\* ------------------------------------------------------ program constants
MAX_CONCURRENT_TASKS == 5
MAX_CONCURRENT_AI == 2

Agents == {"alice", "bob"}

\* positions of a process_task coroutine that has not finished
UnitPCs == {"wait_task", "wait_ai", "enrich"}
UnitKeys == UnitPCs \X Agents

VARIABLES
    tasks_received,     \* TaskMetrics.tasks_received
    tasks_processed,    \* TaskMetrics.tasks_processed
    tasks_failed,       \* TaskMetrics.tasks_failed
    task_semaphore,     \* free permits of WyrmWatchServer.task_semaphore
    ai_semaphore,       \* free permits of WyrmWatchServer.ai_semaphore
    units,              \* bag of live process_task coroutines
    shutdowns,          \* shutdown() coroutines: how many at each position
    shutdown_event,     \* WyrmWatchServer.shutdown_event
    is_connected,       \* MqttClient.is_connected
    transport,          \* connection of the underlying mqtt client
    disconnects,        \* calls of MqttClient.disconnect so far
    shutdown_published, \* shutdown payloads accepted by the transport so far
    main_pc,            \* position of main() / start()
    report_pc,          \* position of report_metrics()
    has_openai,         \* HAS_OPENAI and OPENAI_API_KEY set
    sent,               \* message accepted by the transport in the latest step
    last,               \* what a unit of work did in the latest step
    call                \* one event followed through handle_message and the
                        \* decoding of process_task, apart from the server

vars == <<tasks_received, tasks_processed, tasks_failed, task_semaphore,
          ai_semaphore, units, shutdowns, shutdown_event, is_connected,
          transport, disconnects, shutdown_published, main_pc, report_pc,
          has_openai, sent, last, call>>

metricVars == <<tasks_received, tasks_processed, tasks_failed>>
gateVars == <<task_semaphore, ai_semaphore, units>>
busVars == <<is_connected, transport, disconnects, shutdown_published>>

\* ---------------------------------------------------------------- helpers
RECURSIVE SumOver(_, _)
SumOver(S, f) ==
    IF S = {} THEN 0
    ELSE LET x == CHOOSE y \in S : TRUE
         IN f[x] + SumOver(S \ {x}, f)

At(pc) == SumOver({pc} \X Agents, units)
Waiting == At("wait_task")
HoldingTask == At("wait_ai") + At("enrich")
HoldingAI == At("enrich")
Live == SumOver(UnitKeys, units)

Triggers == shutdowns["start"] + shutdowns["sleep"] + shutdowns["done"]

NoMetrics == [tasks_received |-> -1, tasks_processed |-> -1,
              tasks_failed |-> -1]
NoMsg == [topic |-> <<>>, status |-> "none", message |-> "none",
          metrics |-> NoMetrics]
NoTodo == [target_agent |-> "none", context |-> "none", status |-> "none"]
NoUnit == [agent |-> "none", acquired |-> {}, enrich |-> "none",
           inserted |-> "none", counted |-> "none", todo |-> NoTodo]
NoValue == [kind |-> "none", text |-> <<>>]
NoParams == [command |-> "none", description |-> NoValue, context |-> "none",
             target_agent |-> "none"]
NoCall == [pc |-> "none", topic |-> <<>>, payload_bytes |-> <<>>,
           payload |-> <<>>, raised |-> "none", effect |-> "none",
           received |-> 0, description |-> NoValue, params |-> NoParams]

\* ------------------------------------------------------------ TaskMetrics
increment_received_twice(n) == n + 2
increment_received(n) == n + 1
increment_processed(n) == n + 1
\* a failure counted by the inner and by the outer handler of process_task
increment_failed_twice(n) == n + 2
increment_failed(n) == n + 1

\* a snapshot that reports the received count in place of the processed one
as_json_Torn ==
    [tasks_received |-> tasks_received,
     tasks_processed |-> tasks_received,
     tasks_failed |-> tasks_failed]

as_json ==
    [tasks_received |-> tasks_received,
     tasks_processed |-> tasks_processed,
     tasks_failed |-> tasks_failed]

\* ------------------------------------------------------ asyncio.Semaphore
\* a gate that admits one holder too many
SemFree_OffByOne(v) == v >= 0
SemFree(v) == v > 0
SemAcquire(v) == v - 1
\* a permit that is never given back
SemRelease_Leak(v) == v
SemRelease_Twice(v) == v + 2

SemRelease(v) == v + 1

\* ------------------------------------------------------------- MqttClient
\* publish(): refused when is_connected is false, and the underlying client
\* reports an error code once its connection is gone.
Publish(msg) == IF is_connected /\ transport = "open" THEN msg ELSE NoMsg

ResponseTopic(agent) == <<"response", agent, "todo">>
ErrorTopic(agent) == <<"response", agent, "error">>
StatusTopic == <<"response", "mcp_server", "status">>
MetricsTopic == <<"metrics", "response", "mcp_todo_server">>

\* --------------------------------------------------- ShutdownCoordinator
\* Running until a shutdown() call has begun, Draining while one is in its
\* sleep and the event is not set, Stopped once shutdown_event is set.
ShutdownState ==
    IF shutdown_event THEN "Stopped"
    ELSE IF shutdowns["sleep"] + shutdowns["done"] > 0 THEN "Draining"
    ELSE "Running"

TypeOK ==
    /\ tasks_received \in 0..MaxEvents
    /\ tasks_processed \in 0..MaxEvents
    /\ tasks_failed \in 0..MaxEvents
    /\ task_semaphore \in Int
    /\ ai_semaphore \in Int
    /\ units \in [UnitKeys -> 0..MaxEvents]
    /\ shutdowns \in [{"start", "sleep", "done"} -> 0..MaxTriggers]
    /\ shutdown_event \in BOOLEAN
    /\ is_connected \in BOOLEAN
    /\ transport \in {"idle", "connecting", "open", "refused", "closed"}
    /\ disconnects \in 0..MaxTriggers
    /\ shutdown_published \in 0..MaxTriggers
    /\ main_pc \in {"init", "wait", "exit"}
    /\ report_pc \in {"none", "ready", "wait", "done"}
    /\ has_openai \in BOOLEAN
    /\ call.pc \in {"none", "arrived", "raised", "returned", "spawned",
                    "built"}

\* the server as __init__ leaves it
InitServer ==
    /\ tasks_received = 0
    /\ tasks_processed = 0
    /\ tasks_failed = 0
    /\ task_semaphore = MAX_CONCURRENT_TASKS
    /\ ai_semaphore = MAX_CONCURRENT_AI
    /\ units = [k \in UnitKeys |-> 0]
    /\ shutdowns = [p \in {"start", "sleep", "done"} |-> 0]
    /\ shutdown_event = FALSE
    /\ is_connected = FALSE
    /\ transport = "idle"
    /\ disconnects = 0
    /\ shutdown_published = 0
    /\ main_pc = "init"
    /\ report_pc = "none"
    /\ has_openai \in BOOLEAN
    /\ sent = NoMsg
    /\ last = NoUnit

Init ==
    /\ InitServer
    /\ call = NoCall


\* ----------------------------------------------------------- event loop
\* The loop runs its callbacks in the order they were scheduled: the task
\* start() creates for report_metrics has its first turn as soon as start()
\* waits, before any callback scheduled later.
LoopTurn == main_pc = "wait" /\ report_pc # "ready"

\* ------------------------------------------------------------------ bags
Inc(b, k) == [b EXCEPT ![k] = @ + 1]
Dec(b, k) == [b EXCEPT ![k] = @ - 1]
Move(b, from, to) == Inc(Dec(b, from), to)

\* ---------------------------------------------------- TodoTool.add_todo
\* The document handed to collection.insert_one.
Todo(agent) == [target_agent |-> agent, context |-> "wyrmwatch_server",
                status |-> "pending"]

\* What execute()/add_todo() gives back for the result of insert_one:
\* a stored id or none gives a result mapping (no exception), and
\* insert_one raising leaves add_todo as an exception.
AddTodoResult(ins) ==
    CASE ins = "id" -> "success"
      [] ins = "noid" -> "error"
      [] OTHER -> "raise"

\* -------------------------------------------- WyrmWatchServer.process_task
\* a unit in which increment_processed has run before the exception that
\* the inner handler counts as failed
Execute_BothCounters(agent, acq, enr, ins) ==
    LET result == AddTodoResult(ins)
    IN /\ IF result = "raise"
          THEN /\ tasks_processed' = increment_processed(tasks_processed)
               /\ tasks_failed' = increment_failed(tasks_failed)
               /\ sent' = Publish([topic |-> ErrorTopic(agent),
                                   status |-> "error", message |-> "raise",
                                   metrics |-> NoMetrics])
               /\ last' = [agent |-> agent, acquired |-> acq, enrich |-> enr,
                           inserted |-> ins, counted |-> "failed",
                           todo |-> Todo(agent)]
          ELSE /\ tasks_processed' = increment_processed(tasks_processed)
               /\ tasks_failed' = tasks_failed
               /\ sent' = Publish([topic |-> ResponseTopic(agent),
                                   status |-> "success", message |-> result,
                                   metrics |-> NoMetrics])
               /\ last' = [agent |-> agent, acquired |-> acq, enrich |-> enr,
                           inserted |-> ins, counted |-> "processed",
                           todo |-> Todo(agent)]
       /\ tasks_received' = tasks_received

\* add_todo without its handler around the enrichment: a failed enrichment
\* leaves add_todo as an exception, before any insert
Execute_NoFallback(agent, acq, enr, ins) ==
    LET result == IF enr = "fallback" THEN "raise" ELSE AddTodoResult(ins)
    IN /\ IF result = "raise"
          THEN /\ tasks_failed' = increment_failed(tasks_failed)
               /\ tasks_processed' = tasks_processed
               /\ sent' = Publish([topic |-> ErrorTopic(agent),
                                   status |-> "error", message |-> "raise",
                                   metrics |-> NoMetrics])
               /\ last' = [agent |-> agent, acquired |-> acq, enrich |-> enr,
                           inserted |-> IF enr = "fallback" THEN "none" ELSE ins,
                           counted |-> "failed",
                           todo |-> IF enr = "fallback" THEN NoTodo
                                    ELSE Todo(agent)]
          ELSE /\ tasks_processed' = increment_processed(tasks_processed)
               /\ tasks_failed' = tasks_failed
               /\ sent' = Publish([topic |-> ResponseTopic(agent),
                                   status |-> "success", message |-> result,
                                   metrics |-> NoMetrics])
               /\ last' = [agent |-> agent, acquired |-> acq, enrich |-> enr,
                           inserted |-> ins, counted |-> "processed",
                           todo |-> Todo(agent)]
       /\ tasks_received' = tasks_received

\* The part of process_task inside "async with self.ai_semaphore", from the
\* return of the enrichment to the end of the coroutine: insert, count,
\* publish.  acq is the set of permits acquired in this same segment.
Execute(agent, acq, enr, ins) ==
    LET result == AddTodoResult(ins)
    IN /\ IF result = "raise"
          THEN /\ tasks_failed' = increment_failed(tasks_failed)
               /\ tasks_processed' = tasks_processed
               /\ sent' = Publish([topic |-> ErrorTopic(agent),
                                   status |-> "error", message |-> "raise",
                                   metrics |-> NoMetrics])
               /\ last' = [agent |-> agent, acquired |-> acq, enrich |-> enr,
                           inserted |-> ins, counted |-> "failed",
                           todo |-> Todo(agent)]
          ELSE /\ tasks_processed' = increment_processed(tasks_processed)
               /\ tasks_failed' = tasks_failed
               /\ sent' = Publish([topic |-> ResponseTopic(agent),
                                   status |-> "success", message |-> result,
                                   metrics |-> NoMetrics])
               /\ last' = [agent |-> agent, acquired |-> acq, enrich |-> enr,
                           inserted |-> ins, counted |-> "processed",
                           todo |-> Todo(agent)]
       /\ tasks_received' = tasks_received

\* A unit is given the task permit; it decodes the payload and goes on as
\* far as it can without suspending.
AcquireTask(agent) ==
    /\ LoopTurn
    /\ units[<<"wait_task", agent>>] > 0
    /\ SemFree(task_semaphore)
    /\ \/ \* decoding raises an exception other than JSONDecodeError:
          \* the outer handler counts a failure, nothing is published
          /\ tasks_failed' = increment_failed(tasks_failed)
          /\ UNCHANGED <<tasks_received, tasks_processed>>
          /\ units' = Dec(units, <<"wait_task", agent>>)
          /\ task_semaphore' = SemRelease(SemAcquire(task_semaphore))
          /\ ai_semaphore' = ai_semaphore
          /\ sent' = NoMsg
          /\ last' = [agent |-> agent, acquired |-> {"task"}, enrich |-> "none",
                      inserted |-> "none", counted |-> "failed", todo |-> NoTodo]
       \/ \* the enrichment gate is full: wait for it, holding the task permit
          /\ ~SemFree(ai_semaphore)
          /\ units' = Move(units, <<"wait_task", agent>>, <<"wait_ai", agent>>)
          /\ task_semaphore' = SemAcquire(task_semaphore)
          /\ ai_semaphore' = ai_semaphore
          /\ sent' = NoMsg
          /\ last' = [agent |-> agent, acquired |-> {"task"}, enrich |-> "none",
                      inserted |-> "none", counted |-> "none", todo |-> NoTodo]
          /\ UNCHANGED metricVars
       \/ \* both permits, and the remote enrichment call suspends the unit
          /\ SemFree(ai_semaphore)
          /\ has_openai
          /\ units' = Move(units, <<"wait_task", agent>>, <<"enrich", agent>>)
          /\ task_semaphore' = SemAcquire(task_semaphore)
          /\ ai_semaphore' = SemAcquire(ai_semaphore)
          /\ sent' = NoMsg
          /\ last' = [agent |-> agent, acquired |-> {"task", "ai"},
                      enrich |-> "none", inserted |-> "none",
                      counted |-> "none", todo |-> NoTodo]
          /\ UNCHANGED metricVars
       \/ \* both permits, local enrichment: the unit runs to its end
          /\ SemFree(ai_semaphore)
          /\ \E enr \in {"fallback"}, ins \in {"id", "noid", "raise"} :
                Execute(agent, {"task", "ai"}, enr, ins)
          /\ units' = Dec(units, <<"wait_task", agent>>)
          /\ task_semaphore' = SemRelease(SemAcquire(task_semaphore))
          /\ ai_semaphore' = SemRelease(SemAcquire(ai_semaphore))
    /\ UNCHANGED <<shutdowns, shutdown_event, busVars, main_pc, report_pc,
                   has_openai, call>>

\* a unit that takes the enrichment permit while it still waits for the
\* task permit
AcquireAI_Unnested(agent) ==
    /\ LoopTurn
    /\ units[<<"wait_task", agent>>] > 0
    /\ SemFree(ai_semaphore)
    /\ units' = Move(units, <<"wait_task", agent>>, <<"enrich", agent>>)
    /\ ai_semaphore' = SemAcquire(ai_semaphore)
    /\ task_semaphore' = task_semaphore
    /\ sent' = NoMsg
    /\ last' = [agent |-> agent, acquired |-> {"ai"}, enrich |-> "none",
                inserted |-> "none", counted |-> "none", todo |-> NoTodo]
    /\ UNCHANGED <<metricVars, shutdowns, shutdown_event, busVars, main_pc,
                   report_pc, has_openai, call>>

\* A unit that waited for the enrichment gate is given the permit.
AcquireAI(agent) ==
    /\ LoopTurn
    /\ units[<<"wait_ai", agent>>] > 0
    /\ SemFree(ai_semaphore)
    /\ \/ /\ has_openai
          /\ units' = Move(units, <<"wait_ai", agent>>, <<"enrich", agent>>)
          /\ ai_semaphore' = SemAcquire(ai_semaphore)
          /\ task_semaphore' = task_semaphore
          /\ sent' = NoMsg
          /\ last' = [agent |-> agent, acquired |-> {"ai"}, enrich |-> "none",
                      inserted |-> "none", counted |-> "none", todo |-> NoTodo]
          /\ UNCHANGED metricVars
       \/ /\ \E enr \in {"fallback"}, ins \in {"id", "noid", "raise"} :
                Execute(agent, {"ai"}, enr, ins)
          /\ units' = Dec(units, <<"wait_ai", agent>>)
          /\ ai_semaphore' = SemRelease(SemAcquire(ai_semaphore))
          /\ task_semaphore' = SemRelease(task_semaphore)
    /\ UNCHANGED <<shutdowns, shutdown_event, busVars, main_pc, report_pc,
                   has_openai, call>>

\* a unit whose failure is not kept to itself: the exception goes on to the
\* event loop, which stops
EnrichReturn_Propagates(agent) ==
    /\ LoopTurn
    /\ units[<<"enrich", agent>>] > 0
    /\ \E enr \in {"ai", "fallback"}, ins \in {"id", "noid", "raise"} :
          /\ Execute(agent, {}, enr, ins)
          /\ main_pc' = IF ins = "raise" THEN "exit" ELSE main_pc
    /\ units' = Dec(units, <<"enrich", agent>>)
    /\ ai_semaphore' = SemRelease(ai_semaphore)
    /\ task_semaphore' = SemRelease(task_semaphore)
    /\ UNCHANGED <<shutdowns, shutdown_event, busVars, report_pc,
                   has_openai, call>>

\* The remote enrichment call of a unit returns (or raises, and the unit
\* falls back); the unit runs to its end and gives both permits back.
EnrichReturn(agent) ==
    /\ LoopTurn
    /\ units[<<"enrich", agent>>] > 0
    /\ \E enr \in {"ai", "fallback"}, ins \in {"id", "noid", "raise"} :
          Execute(agent, {}, enr, ins)
    /\ units' = Dec(units, <<"enrich", agent>>)
    /\ ai_semaphore' = SemRelease(ai_semaphore)
    /\ task_semaphore' = SemRelease(task_semaphore)
    /\ UNCHANGED <<shutdowns, shutdown_event, busVars, main_pc, report_pc,
                   has_openai, call>>


\* ------------------------------------------ WyrmWatchServer.handle_message
\* A task event on mcp/<agent>: count it and spawn its unit of work.
DeliverTask(agent) ==
    /\ LoopTurn
    /\ transport = "open"
    /\ is_connected
    /\ tasks_received < MaxEvents
    /\ tasks_received' = increment_received(tasks_received)
    /\ units' = Inc(units, <<"wait_task", agent>>)
    /\ sent' = NoMsg
    /\ last' = NoUnit
    /\ UNCHANGED <<tasks_processed, tasks_failed, task_semaphore, ai_semaphore,
                   shutdowns, shutdown_event, busVars, main_pc, report_pc,
                   has_openai, call>>

\* {"command": "status"} on the control topic.
ControlStatus ==
    /\ LoopTurn
    /\ transport = "open"
    /\ is_connected
    /\ sent' = Publish([topic |-> StatusTopic, status |-> "running",
                        message |-> "none", metrics |-> as_json])
    /\ last' = NoUnit
    /\ UNCHANGED <<metricVars, gateVars, shutdowns, shutdown_event, busVars,
                   main_pc, report_pc, has_openai, call>>

\* {"command": "shutdown"} on the control topic: a shutdown() task is created.
ControlShutdown ==
    /\ LoopTurn
    /\ transport = "open"
    /\ is_connected
    /\ Triggers < MaxTriggers
    /\ shutdowns' = Inc(shutdowns, "start")
    /\ sent' = NoMsg
    /\ last' = NoUnit
    /\ UNCHANGED <<metricVars, gateVars, shutdown_event, busVars, main_pc,
                   report_pc, has_openai, call>>

\* A control event that is no command: text that is not JSON, or a mapping
\* with another command.
ControlIgnored ==
    /\ LoopTurn
    /\ transport = "open"
    /\ is_connected
    /\ sent' = NoMsg
    /\ last' = NoUnit
    /\ UNCHANGED <<metricVars, gateVars, shutdowns, shutdown_event, busVars,
                   main_pc, report_pc, has_openai, call>>

\* ------------------------------------------------- WyrmWatchServer.start
\* start(): connect, create the reporting task, register the signal
\* handlers and wait for shutdown_event; a failed connect ends the process.
Start ==
    /\ main_pc = "init"
    /\ \/ /\ main_pc' = "wait"
          /\ transport' = "connecting"
          /\ report_pc' = "ready"
       \/ /\ main_pc' = "exit"
          /\ UNCHANGED <<transport, report_pc>>
    /\ sent' = NoMsg
    /\ last' = NoUnit
    /\ UNCHANGED <<metricVars, gateVars, shutdowns, shutdown_event,
                   is_connected, disconnects, shutdown_published, has_openai, call>>

\* MqttClient._on_connect: the broker answers the connect.
OnConnect ==
    /\ transport = "connecting"
    /\ \/ /\ transport' = "open"
          /\ is_connected' = TRUE
       \/ /\ transport' = "refused"
          /\ is_connected' = is_connected
    /\ sent' = NoMsg
    /\ last' = NoUnit
    /\ UNCHANGED <<metricVars, gateVars, shutdowns, shutdown_event,
                   disconnects, shutdown_published, main_pc, report_pc,
                   has_openai, call>>

\* SIGINT or SIGTERM: the handler creates a shutdown() task.
Signal ==
    /\ LoopTurn
    /\ Triggers < MaxTriggers
    /\ shutdowns' = Inc(shutdowns, "start")
    /\ sent' = NoMsg
    /\ last' = NoUnit
    /\ UNCHANGED <<metricVars, gateVars, shutdown_event, busVars, main_pc,
                   report_pc, has_openai, call>>

\* ----------------------------------------------- WyrmWatchServer.shutdown
\* shutdown() up to its sleep: publish the final metrics, disconnect.  The
\* mqtt client is stopped and closed (MqttClient.disconnect), and its
\* _on_disconnect callback clears is_connected.
ShutdownBegin ==
    /\ LoopTurn
    /\ shutdowns["start"] > 0
    /\ LET msg == Publish([topic |-> StatusTopic, status |-> "shutdown",
                           message |-> "none", metrics |-> as_json])
       IN /\ sent' = msg
          /\ shutdown_published' =
                IF msg = NoMsg THEN shutdown_published
                ELSE shutdown_published + 1
    /\ disconnects' = disconnects + 1
    /\ transport' = "closed"
    /\ is_connected' = FALSE
    /\ shutdowns' = Move(shutdowns, "start", "sleep")
    /\ last' = NoUnit
    /\ UNCHANGED <<metricVars, gateVars, shutdown_event, main_pc, report_pc,
                   has_openai, call>>

\* a shutdown() that ends after its sleep without setting shutdown_event
ShutdownEnd_NoSet ==
    /\ LoopTurn
    /\ shutdowns["sleep"] > 0
    /\ shutdowns' = Move(shutdowns, "sleep", "done")
    /\ sent' = NoMsg
    /\ last' = NoUnit
    /\ UNCHANGED <<metricVars, gateVars, shutdown_event, busVars, main_pc,
                   report_pc, has_openai, call>>

\* shutdown() after its sleep: set shutdown_event.
ShutdownEnd ==
    /\ LoopTurn
    /\ shutdowns["sleep"] > 0
    /\ shutdowns' = Move(shutdowns, "sleep", "done")
    /\ shutdown_event' = TRUE
    /\ sent' = NoMsg
    /\ last' = NoUnit
    /\ UNCHANGED <<metricVars, gateVars, busVars, main_pc, report_pc,
                   has_openai, call>>

\* ----------------------------------------- WyrmWatchServer.report_metrics
\* One turn of the loop: the first one, or the one after a timeout of the
\* wait.  The loop publishes a snapshot and waits again.
ReportMetrics ==
    /\ main_pc = "wait"
    /\ report_pc \in {"ready", "wait"}
    /\ ~shutdown_event
    /\ sent' = Publish([topic |-> MetricsTopic, status |-> "metrics",
                        message |-> "none", metrics |-> as_json])
    /\ report_pc' = "wait"
    /\ last' = NoUnit
    /\ UNCHANGED <<metricVars, gateVars, shutdowns, shutdown_event, busVars,
                   main_pc, has_openai, call>>

\* The wait ends because shutdown_event is set: the loop condition is false
\* and the coroutine returns.
ReportMetricsExit ==
    /\ main_pc = "wait"
    /\ report_pc \in {"ready", "wait"}
    /\ shutdown_event
    /\ report_pc' = "done"
    /\ sent' = NoMsg
    /\ last' = NoUnit
    /\ UNCHANGED <<metricVars, gateVars, shutdowns, shutdown_event, busVars,
                   main_pc, has_openai, call>>

\* ------------------------------------------------------ main, asyncio.run
\* start() returns once shutdown_event is set, main() returns and
\* asyncio.run cancels every task that is left: a cancelled unit leaves its
\* "async with" blocks, which give its permits back, and counts nothing.
Exit ==
    /\ LoopTurn
    /\ shutdown_event
    /\ main_pc' = "exit"
    /\ task_semaphore' = task_semaphore + HoldingTask
    /\ ai_semaphore' = ai_semaphore + HoldingAI
    /\ units' = [k \in UnitKeys |-> 0]
    /\ shutdowns' = [shutdowns EXCEPT !["start"] = 0, !["sleep"] = 0]
    /\ report_pc' = "done"
    /\ sent' = NoMsg
    /\ last' = NoUnit
    /\ UNCHANGED <<metricVars, shutdown_event, busVars, has_openai, call>>

Next ==
    \/ Start
    \/ OnConnect
    \/ \E agent \in Agents : DeliverTask(agent)
    \/ ControlStatus
    \/ ControlShutdown
    \/ ControlIgnored
    \/ Signal
    \/ \E agent \in Agents : AcquireTask(agent)
    \/ \E agent \in Agents : AcquireAI(agent)
    \/ \E agent \in Agents : EnrichReturn(agent)
    \/ ShutdownBegin
    \/ ShutdownEnd
    \/ ReportMetrics
    \/ ReportMetricsExit
    \/ Exit

Spec == Init /\ [][Next]_vars


\* The server with no shutdown trigger, under the scheduling of the event
\* loop: a unit that can be given a permit is given it, and a pending
\* enrichment call returns.
NextRunning ==
    \/ Start
    \/ OnConnect
    \/ \E agent \in Agents : DeliverTask(agent)
    \/ ControlStatus
    \/ ControlIgnored
    \/ \E agent \in Agents : AcquireTask(agent)
    \/ \E agent \in Agents : AcquireAI(agent)
    \/ \E agent \in Agents : EnrichReturn(agent)
    \/ ReportMetrics

LiveSpec ==
    /\ Init
    /\ [][NextRunning]_vars
    /\ \A agent \in Agents :
          /\ WF_vars(AcquireTask(agent))
          /\ WF_vars(AcquireAI(agent))
          /\ WF_vars(EnrichReturn(agent))

\* The event loop runs every callback that is ready: a shutdown() task that
\* was created is started, its one-second sleep ends, the first turn of
\* report_metrics is taken, and start() is resumed once shutdown_event is
\* set.  Nothing is assumed about the units of work.
ShutdownLiveSpec ==
    /\ Init
    /\ [][Next]_vars
    /\ WF_vars(ReportMetrics)
    /\ WF_vars(ShutdownBegin)
    /\ WF_vars(ShutdownEnd)
    /\ WF_vars(Exit)

\* ============================================ one event, byte by byte
\* A payload is a sequence of lexical units, written here by name:
\*   xff            a byte that no UTF-8 text contains
\*   word           bare letters, as in  buy milk
\*   num            a JSON number, as in  5
\*   lb, rb         {  and  }
\*   k_description  "description":     k_command  "command":
\*   k_other        "note":
\*   q_text  "x"    q_empty  ""    q_status  "status"    q_shutdown "shutdown"
\* The units of a payload are separated by blanks, so that a sequence of
\* them is JSON exactly when it is one of the forms json_loads accepts.
Tokens == {"xff", "word", "num", "lb", "rb", "k_description", "k_command",
           "k_other", "q_text", "q_empty", "q_status", "q_shutdown"}
Payloads == UNION {[1..n -> Tokens] : n \in 0..MaxPayloadLen}

\* topics, split at "/"
ControlTopic == <<"mcp_server", "control">>
Topics == {ControlTopic} \cup {<<"mcp", agent>> : agent \in Agents}

\* topic.startswith("mcp/")
StartsWithMcp(topic) == Len(topic) > 1 /\ topic[1] = "mcp"

\* payload_bytes.decode('utf-8')
decode(payload_bytes) ==
    IF \E i \in 1..Len(payload_bytes) : payload_bytes[i] = "xff"
    THEN [raised |-> "UnicodeDecodeError", text |-> <<>>]
    ELSE [raised |-> "none", text |-> payload_bytes]

\* the Python value of a scalar lexical unit
Scalar(tok) ==
    CASE tok = "num" -> [kind |-> "int", text |-> <<"5">>]
      [] tok = "q_text" -> [kind |-> "str", text |-> <<"x">>]
      [] tok = "q_empty" -> [kind |-> "str", text |-> <<>>]
      [] tok = "q_status" -> [kind |-> "str", text |-> <<"status">>]
      [] tok = "q_shutdown" -> [kind |-> "str", text |-> <<"shutdown">>]
      [] OTHER -> NoValue

Keys == {"k_description", "k_command", "k_other"}

\* json.loads(text): an int, a str, a dict of no or one item, or
\* JSONDecodeError.  Of the value of an item only its kind and, for a
\* string, its text are kept.
RECURSIVE json_loads(_)
json_loads(text) ==
    LET n == Len(text)
        JSONDecodeError == [kind |-> "JSONDecodeError", text |-> <<>>,
                            key |-> "none", item |-> NoValue]
    IN IF n = 1 /\ Scalar(text[1]) # NoValue
       THEN [kind |-> Scalar(text[1]).kind, text |-> Scalar(text[1]).text,
             key |-> "none", item |-> NoValue]
       ELSE IF n = 2 /\ text[1] = "lb" /\ text[2] = "rb"
       THEN [kind |-> "dict", text |-> <<>>, key |-> "none",
             item |-> NoValue]
       ELSE IF n >= 4 /\ text[1] = "lb" /\ text[2] \in Keys /\ text[n] = "rb"
       THEN LET v == json_loads(SubSeq(text, 3, n - 1))
            IN IF v.kind = "JSONDecodeError" THEN JSONDecodeError
               ELSE [kind |-> "dict", text |-> <<>>, key |-> text[2],
                     item |-> [kind |-> v.kind, text |-> v.text]]
       ELSE JSONDecodeError

\* control_json.get("command") of a dict
get_command(control_json) ==
    IF control_json.key = "k_command" THEN control_json.item ELSE NoValue

\* handle_message(topic, payload_bytes), from its call to its return or to
\* the exception that leaves it.  effect is what it asked of the server.
handle_message(topic, payload_bytes) ==
    LET d == decode(payload_bytes)
        payload == d.text
        result(pc, raised, effect, received) ==
            [NoCall EXCEPT !.pc = pc, !.topic = topic,
                           !.payload_bytes = payload_bytes,
                           !.payload = payload, !.raised = raised,
                           !.effect = effect, !.received = received]
        \* "if topic.startswith('mcp/')", reached when no branch returned
        task_messages ==
            IF StartsWithMcp(topic)
            THEN result("spawned", "none", "create_task(process_task)",
                        increment_received(0))
            ELSE result("returned", "none", "none", 0)
    IN IF d.raised # "none"
       THEN result("raised", d.raised, "none", 0)
       ELSE IF topic = ControlTopic
       THEN LET control_json == json_loads(payload)
            IN IF control_json.kind = "JSONDecodeError"
               THEN task_messages
               ELSE IF control_json.kind # "dict"
               THEN result("raised", "AttributeError", "none", 0)
               ELSE LET command == get_command(control_json)
                    IN IF command = [kind |-> "str", text |-> <<"shutdown">>]
                       THEN result("returned", "none",
                                   "create_task(shutdown)", 0)
                       ELSE IF command = [kind |-> "str",
                                          text |-> <<"status">>]
                       THEN result("returned", "none", "publish(status)", 0)
                       ELSE task_messages
       ELSE task_messages

\* The decoding at the head of process_task: the description.
Description(payload) ==
    LET payload_json == json_loads(payload)
    IN IF payload_json.kind = "dict" /\ payload_json.key = "k_description"
       THEN payload_json.item
       ELSE [kind |-> "str", text |-> payload]

\* topic.split('/')[1] if len(topic.split('/')) > 1 else "user"
TargetAgent(topic) == IF Len(topic) > 1 THEN topic[2] ELSE "user"

\* the parameters process_task builds for TodoTool
Params(description, target_agent) ==
    [command |-> "add", description |-> description,
     context |-> "wyrmwatch_server", target_agent |-> target_agent]

HandlerInit ==
    /\ InitServer
    /\ has_openai
    /\ \E topic \in Topics, payload_bytes \in Payloads :
          call = [NoCall EXCEPT !.pc = "arrived", !.topic = topic,
                                !.payload_bytes = payload_bytes]

HandleMessage ==
    /\ call.pc = "arrived"
    /\ call' = handle_message(call.topic, call.payload_bytes)
    /\ UNCHANGED <<metricVars, gateVars, shutdowns, shutdown_event, busVars,
                   main_pc, report_pc, has_openai, sent, last>>

ParsePayload ==
    /\ call.pc = "spawned"
    /\ LET description == Description(call.payload)
       IN call' = [call EXCEPT !.pc = "built",
                               !.description = description,
                               !.params = Params(description,
                                                 TargetAgent(call.topic))]
    /\ UNCHANGED <<metricVars, gateVars, shutdowns, shutdown_event, busVars,
                   main_pc, report_pc, has_openai, sent, last>>

HandlerNext ==
    \/ HandleMessage
    \/ ParsePayload

HandlerSpec == HandlerInit /\ [][HandlerNext]_vars

\* ================================================================ claims

\* C1: in every reachable state processed + failed <= received.
C1_CountersBounded == tasks_processed + tasks_failed <= tasks_received

\* C1 witness: after a shutdown, units have ended both ways and every
\* received event is accounted for.
C1_Witness ==
    /\ disconnects > 0
    /\ tasks_processed > 0
    /\ tasks_failed > 0
    /\ tasks_processed + tasks_failed = tasks_received

\* C2: at most MAX_CONCURRENT_TASKS units hold a task permit and at most
\* MAX_CONCURRENT_AI units hold an enrichment permit, however many task
\* events were delivered.
C2_AdmissionBounded ==
    /\ HoldingTask <= MAX_CONCURRENT_TASKS
    /\ HoldingAI <= MAX_CONCURRENT_AI

\* C2 witness: both gates are full and one more unit waits for admission.
C2_Witness ==
    /\ HoldingTask = MAX_CONCURRENT_TASKS
    /\ HoldingAI = MAX_CONCURRENT_AI
    /\ Waiting > 0

\* C3: however often shutdown is triggered, one shutdown payload is
\* published and one disconnect is performed.
C3_ShutdownIdempotent ==
    /\ shutdown_published <= 1
    /\ disconnects <= 1

\* C4: the disconnect does not happen before the units that hold a task
\* permit have completed.
C4_InFlightFinishBeforeDisconnect == (disconnects > 0) => (HoldingTask = 0)

\* C5: the disconnect never precedes the end of the grace interval.
C5_DisconnectAfterGrace == (disconnects > 0) => (shutdowns["done"] > 0)

\* C6: absent shutdown, every delivered task event eventually reaches a
\* terminal outcome: again and again every event received so far has been
\* counted as processed or failed, so none waits for a permit forever.
C6_AllEventsTerminate ==
    []<>(tasks_processed + tasks_failed = tasks_received)

\* C6 witness: more events than the task gate admits were delivered, and
\* all of them have been counted.
C6_Witness ==
    /\ has_openai
    /\ tasks_received > MAX_CONCURRENT_TASKS
    /\ tasks_processed + tasks_failed = tasks_received

\* C7: once the shutdown state is Draining (or Stopped), no unit acquires a
\* task permit or an enrichment permit.
C7_NoAdmissionWhileDraining ==
    (ShutdownState # "Running") => (last.acquired = {})

\* C8: the reporting loop never terminates on shutdown without a final
\* publish to the metrics topic.
C8_FinalReport ==
    [][(report_pc # "done" /\ report_pc' = "done")
          => (sent'.topic = MetricsTopic)]_vars

\* C9: a unit whose insert does not succeed (it raises, or reports no stored
\* id) increments failed, publishes an error payload to
\* response/<target_agent>/error and publishes no success payload.
C9_InsertFailureIsFailure ==
    (last.inserted \in {"noid", "raise"}) =>
        /\ last.counted = "failed"
        /\ sent.topic = ErrorTopic(last.agent)
        /\ sent.status = "error"

\* C10: a unit of an event on mcp/<X> whose record is persisted has stored
\* target_agent X, increments processed and publishes a success payload to
\* response/<X>/todo.
C10_InsertSuccessIsRouted ==
    (last.inserted = "id") =>
        /\ last.todo.target_agent = last.agent
        /\ last.counted = "processed"
        /\ sent.topic = ResponseTopic(last.agent)
        /\ sent.status = "success"


\* C12: a unit whose enrichment failed (it went on with the fallback) still
\* hands its document to insert_one, and counts failed exactly when the
\* insert raises: the enrichment failure itself never counts as a failure.
C12_EnrichmentFailureNotTaskFailure ==
    (last.enrich = "fallback") =>
        /\ last.inserted # "none"
        /\ last.todo = Todo(last.agent)
        /\ (last.counted = "failed") <=> (last.inserted = "raise")
        /\ (last.counted = "processed") <=> (last.inserted # "raise")

\* C12 witness: a unit whose remote enrichment call failed after suspending
\* it, and which was persisted and counted as processed.
C12_Witness ==
    /\ has_openai
    /\ last.enrich = "fallback"
    /\ last.acquired = {}
    /\ last.inserted = "id"
    /\ last.counted = "processed"

\* Some unit of work can take its next step: be given a permit it waits
\* for, or come back from its enrichment call.
UnitStep ==
    \E agent \in Agents :
        AcquireTask(agent) \/ AcquireAI(agent) \/ EnrichReturn(agent)

\* C14: the two gates never deadlock: whenever a unit waits for the task
\* permit or for the enrichment permit, some unit can take a step.
C14_NoDeadlock ==
    (At("wait_task") + At("wait_ai") > 0) => ENABLED UnitStep

\* C14 witness: both gates are exhausted, with units queued at each of them.
C14_Witness ==
    /\ At("wait_task") > 0
    /\ At("wait_ai") > 0
    /\ ~SemFree(task_semaphore)
    /\ ~SemFree(ai_semaphore)
    /\ ENABLED UnitStep

\* C15: every permit is given back exactly once on every way out of a unit:
\* at each gate the free permits and the units holding one add up to the
\* capacity, and once no unit is left (all ended or cancelled) both gates are
\* back at their capacity.
C15_PermitsConserved ==
    /\ task_semaphore + HoldingTask = MAX_CONCURRENT_TASKS
    /\ ai_semaphore + HoldingAI = MAX_CONCURRENT_AI
    /\ (Live = 0) => /\ task_semaphore = MAX_CONCURRENT_TASKS
                     /\ ai_semaphore = MAX_CONCURRENT_AI

\* C15 witness: a unit has just ended on a failed insert while other units
\* still hold permits of both gates.
C15_Witness ==
    /\ last.inserted = "raise"
    /\ last.counted = "failed"
    /\ At("enrich") > 0
    /\ At("wait_ai") > 0
    /\ task_semaphore + HoldingTask = MAX_CONCURRENT_TASKS

\* C16: handling a status command publishes one message, on
\* response/mcp_server/status, whose three counts are the counters as they
\* are at that step (hence processed + failed <= received in the message),
\* and it changes neither the counters nor the gates nor the units.
C16_StatusSnapshot ==
    [][ControlStatus =>
          /\ sent'.topic = StatusTopic
          /\ sent'.status = "running"
          /\ sent'.metrics.tasks_received = tasks_received
          /\ sent'.metrics.tasks_processed = tasks_processed
          /\ sent'.metrics.tasks_failed = tasks_failed
          /\ sent'.metrics.tasks_processed + sent'.metrics.tasks_failed
                <= sent'.metrics.tasks_received
          /\ UNCHANGED <<metricVars, gateVars>>]_vars

\* C16 witness: a status message has been sent while units are waiting at
\* both gates and others have already been counted.
C16_Witness ==
    /\ sent.topic = StatusTopic
    /\ sent.metrics.tasks_received > sent.metrics.tasks_processed
    /\ sent.metrics.tasks_processed > 0
    /\ sent.metrics.tasks_failed > 0
    /\ At("wait_ai") > 0
    /\ At("enrich") > 0

\* C17: once shutdown has been triggered (by a signal or by the control
\* command) the server reaches Stopped and the wait in start() is released,
\* whatever the units of work are doing.
C17_ShutdownCompletes ==
    (Triggers > 0) ~> (ShutdownState = "Stopped" /\ main_pc = "exit")

\* C17 witness: the server has stopped and left its wait after one trigger,
\* with events that were received and never counted as processed or failed.
C17_Witness ==
    /\ main_pc = "exit"
    /\ ShutdownState = "Stopped"
    /\ shutdowns["done"] = 1
    /\ tasks_received > tasks_processed + tasks_failed + 1

\* C18: the enrichment permit is given back before the record is persisted:
\* the step of a unit in which insert_one is called and the outcome is
\* published gives back no enrichment permit, because the unit holds none
\* when that step begins.
C18_EnrichPermitReleasedBeforePersist ==
    [][(last'.inserted # "none" /\ last' # last) =>
          /\ HoldingAI' = HoldingAI
          /\ ai_semaphore' = ai_semaphore]_vars

\* C19: the gates are nested.  After every step the enrichment permits that
\* are out are no more than the task permits that are out; a step that takes
\* an enrichment permit takes the task permit too or is the step of a unit
\* that waited for the enrichment gate holding the task permit; and a step
\* that gives a task permit back leaves no enrichment permit with that unit.
C19_GatesNested ==
    [][/\ MAX_CONCURRENT_AI - ai_semaphore'
            <= MAX_CONCURRENT_TASKS - task_semaphore'
       /\ (ai_semaphore' < ai_semaphore) =>
             \/ task_semaphore' < task_semaphore
             \/ At("wait_ai")' < At("wait_ai")
       /\ (task_semaphore' > task_semaphore) =>
             /\ ai_semaphore' >= ai_semaphore
             /\ MAX_CONCURRENT_AI - ai_semaphore' = HoldingAI'
             /\ MAX_CONCURRENT_TASKS - task_semaphore' = HoldingTask']_vars

\* C19 witness: a unit that held the task permit while the enrichment gate
\* was full has just been given the enrichment permit, and another still
\* waits for it.
C19_Witness ==
    /\ last.acquired = {"ai"}
    /\ At("wait_ai") > 0
    /\ ~SemFree(ai_semaphore)
    /\ MAX_CONCURRENT_AI - ai_semaphore < MAX_CONCURRENT_TASKS - task_semaphore

\* C20: received is incremented once for each task event, before the
\* event's unit asks for the task permit: received is never less than the
\* units waiting for or holding the task permit plus processed plus failed
\* (and is exactly that sum while no unit has been cancelled); a step that
\* creates a unit adds exactly one, and a step that creates none, as the
\* handling of a control event, leaves received as it is.
C20_ReceivedCountsEveryUnit ==
    /\ [](/\ tasks_received >= Live + tasks_processed + tasks_failed
          /\ (main_pc # "exit") =>
                tasks_received = Live + tasks_processed + tasks_failed)
    /\ [][/\ tasks_received' \in {tasks_received, tasks_received + 1}
          /\ (tasks_received' # tasks_received) <=>
                (At("wait_task")' = At("wait_task") + 1)]_vars

\* C20 witness: events have been received whose units wait for the task
\* permit, hold it, and have been counted as processed and as failed.
C20_Witness ==
    /\ At("wait_task") > 0
    /\ At("wait_ai") > 0
    /\ At("enrich") > 0
    /\ tasks_processed > 0
    /\ tasks_failed > 0
    /\ tasks_received = Live + tasks_processed + tasks_failed

\* C11: decoding on the task path is total: whatever the bytes of a task
\* event are, no exception leaves handle_message, and the description the
\* unit builds its parameters with is a non-empty text.
C11_DecodingTotal ==
    (StartsWithMcp(call.topic) /\ call.pc \notin {"none", "arrived"}) =>
        /\ call.raised = "none"
        /\ call.pc \in {"spawned", "built"}
        /\ (call.pc = "built") =>
              /\ call.description.kind = "str"
              /\ Len(call.description.text) > 0
              /\ call.params = Params(call.description,
                                      TargetAgent(call.topic))

\* C13: a control event whose payload is text but no command object (it is
\* not JSON, or it is JSON and no mapping) or whose command is unknown is
\* dropped: no
\* exception leaves handle_message, and it asks nothing of the server (no
\* publish, no task, received as it was).
C13_BadControlDiscarded ==
    LET isCommand ==
            /\ decode(call.payload_bytes).raised = "none"
            /\ json_loads(call.payload_bytes).kind = "dict"
            /\ get_command(json_loads(call.payload_bytes)).kind = "str"
            /\ get_command(json_loads(call.payload_bytes)).text
                  \in {<<"shutdown">>, <<"status">>}
    IN (call.topic = ControlTopic /\ call.pc \notin {"none", "arrived"}
            /\ decode(call.payload_bytes).raised = "none"
            /\ ~isCommand) =>
          /\ call.raised = "none"
          /\ call.pc = "returned"
          /\ call.effect = "none"
          /\ call.received = 0

\* C21: an exception in a unit of work stays in that unit.  The step in
\* which a unit ends on an exception (in its decoding or in the insert)
\* adds one to failed and nothing to processed or received, takes exactly
\* that unit out of the bag and leaves every other unit where it is, leaves
\* with the gates exactly the permits of the units still holding them,
\* leaves the loop, the shutdown state and the connection as they are, and
\* a task event that could be delivered before can be delivered after.
C21_ExceptionContained ==
    [][(last'.counted = "failed" /\ units' # units) =>
          /\ tasks_failed' = tasks_failed + 1
          /\ tasks_processed' = tasks_processed
          /\ tasks_received' = tasks_received
          /\ \E k \in UnitKeys : units' = [units EXCEPT ![k] = @ - 1]
          /\ MAX_CONCURRENT_TASKS - task_semaphore' = HoldingTask'
          /\ MAX_CONCURRENT_AI - ai_semaphore' = HoldingAI'
          /\ UNCHANGED <<main_pc, report_pc, shutdowns, shutdown_event,
                         busVars>>
          /\ LoopTurn'
          /\ \A agent \in Agents :
                (ENABLED DeliverTask(agent)) =>
                    /\ transport' = "open"
                    /\ is_connected'
                    /\ tasks_received' < MaxEvents]_vars

\* C21 witness: a unit has just ended on an exception of its decoding while
\* both enrichment permits are held by other units and a third waits for
\* one, and the next task event can be delivered.
C21_Witness ==
    /\ last.counted = "failed"
    /\ last.inserted = "none"
    /\ At("enrich") = MAX_CONCURRENT_AI
    /\ At("wait_ai") > 0
    /\ tasks_failed > 0
    /\ ENABLED DeliverTask("alice")

\* C22: a unit of work is counted once.  A step adds at most one to
\* processed and failed together, and only when a unit ends in it; a unit
\* that ends without being cancelled adds exactly one; so with no unit left
\* and no shutdown, processed + failed = received.
C22_OneTerminalCount ==
    /\ []((At("wait_task") + At("wait_ai") + At("enrich") = 0
             /\ Triggers = 0 /\ main_pc # "exit") =>
            tasks_processed + tasks_failed = tasks_received)
    /\ [][LET counted == (tasks_processed' - tasks_processed)
                            + (tasks_failed' - tasks_failed)
              ended == \E k \in UnitKeys :
                          units' = [units EXCEPT ![k] = @ - 1]
          IN /\ tasks_processed' - tasks_processed \in {0, 1}
             /\ tasks_failed' - tasks_failed \in {0, 1}
             /\ counted \in {0, 1}
             /\ (counted = 1) => ended
             /\ (units' # units /\ ended /\ main_pc' # "exit") =>
                   counted = 1]_vars

\* C22 witness: units have ended as processed and as failed (one of them in
\* the inner handler, on an exception of the insert), none is left, no
\* shutdown was triggered, and the counters add up to received.
C22_Witness ==
    /\ At("wait_task") + At("wait_ai") + At("enrich") = 0
    /\ Triggers = 0
    /\ main_pc = "wait"
    /\ tasks_processed > 0
    /\ tasks_failed > 1
    /\ last.counted = "failed"
    /\ last.inserted = "raise"
    /\ tasks_processed + tasks_failed = tasks_received

====
